---- MODULE Spec2Model ----
(***************************************************************************)
(* A model of gfdl_utils/core.py: the path builder get_pathspp, the tape   *)
(* residency queries (query_ondisk, query_all_ondisk), the dmget and       *)
(* mirror workflows of open_frompp, mirror_path, and the catalogue lookup  *)
(* find_variable / find_unique_variable.                                    *)
(*                                                                         *)
(* A Python str is a sequence of one-character strings, so that split,     *)
(* join, replace and the substring test are computed as Python computes    *)
(* them.  A few multi-character tokens ("(REG)", ".gcp", "nc") stand for   *)
(* text that the code only ever handles as a whole.                        *)
(***************************************************************************)
EXTENDS Naturals, Sequences, FiniteSets, TLC

\* ------------------------------------------------------------------ bounds
\* longest list of paths handed to mirror_path / returned by one glob.glob
MaxPaths == 2
\* most lines (before the final split segment) in one dmls output
MaxLines == 1
\* longest pp / out / local segment given to get_pathspp on its own
MaxSegLen == 1
\* most components (ppnames) in the catalogue returned by get_allvars
MaxComps == 2

\* ------------------------------------------------------- Python str helpers
RECURSIVE JoinWith(_, _)
\* sep.join(list)
JoinWith(sep, list) ==
    IF list = <<>> THEN <<>>
    ELSE IF Len(list) = 1 THEN list[1]
    ELSE list[1] \o sep \o JoinWith(sep, Tail(list))

RECURSIVE SplitOn(_, _)
\* s.split(c) for a one-character separator c: always at least one segment
SplitOn(s, c) ==
    IF s = <<>> THEN << <<>> >>
    ELSE LET r == SplitOn(Tail(s), c)
         IN IF Head(s) = c THEN << <<>> >> \o r
            ELSE << <<Head(s)>> \o r[1] >> \o Tail(r)

RECURSIVE ReplaceDoubled(_)
\* s.replace("//", "/"): one left-to-right pass over non-overlapping matches
ReplaceDoubled(s) ==
    IF Len(s) < 2 THEN s
    ELSE IF s[1] = "/" /\ s[2] = "/"
         THEN <<"/">> \o ReplaceDoubled(SubSeq(s, 3, Len(s)))
         ELSE <<s[1]>> \o ReplaceDoubled(Tail(s))

\* "//" in s
HasDoubled(s) == \E i \in 1..(Len(s) - 1) : s[i] = "/" /\ s[i + 1] = "/"

\* sub in s, for str operands
IsSubstring(sub, s) ==
    \E i \in 0..(Len(s) - Len(sub)) : SubSeq(s, i + 1, i + Len(sub)) = sub

\* list[:-1]
ButLast(list) == SubSeq(list, 1, Len(list) - 1)

\* list[-1] of a non-empty list
Last(list) == list[Len(list)]

\* the elements of a list, as a set
Range(list) == {list[i] : i \in 1..Len(list)}

\* every sequence over S of length at most n
SeqsUpTo(S, n) == UNION {[1..k -> S] : k \in 0..n}

\* the lists of distinct elements of S of length at most n
DistinctSeqs(S, n) ==
    {s \in SeqsUpTo(S, n) : \A i, j \in 1..Len(s) : i # j => s[i] # s[j]}

\* ------------------------------------------------------------- file system
RECURSIVE Canon(_)
\* The file a path string names: the kernel's path resolution treats any run
\* of separators as one, which is more than ReplaceDoubled removes.
Canon(s) ==
    IF Len(s) < 2 THEN s
    ELSE IF s[1] = "/" /\ s[2] = "/" THEN Canon(Tail(s))
         ELSE <<s[1]>> \o Canon(Tail(s))

\* a directory path, without its trailing separator
CanonDir(s) ==
    LET c == Canon(s)
    IN IF Len(c) > 1 /\ Last(c) = "/" THEN ButLast(c) ELSE c

\* ------------------------------------------------------------- PathBuilder
\* the extension 'nc' of get_pathspp's filename
NC == <<"nc">>

get_pathspp(pp, ppname, out, local, time, add) ==
    LET filename == JoinWith(<<".">>, <<ppname, time, add, NC>>)
        path == JoinWith(<<"/">>, <<pp, ppname, out, local, filename>>)
    IN ReplaceDoubled(path)

\* ------------------------------------------------------------ ArchiveQuery
\* the status markers query_ondisk recognises, and one it does not
REG == <<"(REG)">>
DUL == <<"(DUL)">>
OFL == <<"(OFL)">>

\* a file that dmls may list although it was not asked for
OtherFile == <<"/", "x">>

\* the lines dmls may print when asked about path: a status and a file name
\* separated by a space, or a blank line
DmlsLines(path) ==
    {JoinWith(<<" ">>, <<m, q>>) : m \in {REG, DUL, OFL}, q \in {path, OtherFile}}
        \cup {<<>>}

\* os.popen(cmd).read().split('\n'): the printed lines and the final segment,
\* which is empty when the output ends with a newline and is the unterminated
\* last line otherwise
DmlsOutputs(path) ==
    {body \o <<final>> :
        body \in SeqsUpTo(DmlsLines(path), MaxLines),
        final \in {<<>>, JoinWith(<<" ">>, <<REG, path>>)}}

\* one iteration of query_ondisk's loop: ondisk[output.split(' ')[-1]] = ...
OndiskPut(ondisk, output) ==
    LET key == Last(SplitOn(output, " "))
        val == IsSubstring(REG, output) \/ IsSubstring(DUL, output)
    IN [k \in (DOMAIN ondisk) \cup {key} |-> IF k = key THEN val ELSE ondisk[k]]

RECURSIVE OndiskLoop(_)
\* the dictionary after the loop has run over the given lines
OndiskLoop(lines) ==
    IF lines = <<>> THEN <<>>
    ELSE OndiskPut(OndiskLoop(ButLast(lines)), Last(lines))

\* query_ondisk, given what dmls printed (already split on '\n')
query_ondisk(outputs) == OndiskLoop(ButLast(outputs))

\* all(ondisk.values())
AllValues(ondisk) == \A k \in DOMAIN ondisk : ondisk[k]

\* query_all_ondisk, given all(query_ondisk(path).values()) of each entry
query_all_ondisk(vals) == \A i \in 1..Len(vals) : vals[i]

\* whether a dictionary marks path as resident (kept for the properties)
MarkedResident(ondisk, path) == path \in DOMAIN ondisk /\ ondisk[path]

\* a Python value that is a str, a list of str, or something else
Str(s) == [type |-> "str", s |-> s, l |-> <<>>]
List(l) == [type |-> "list", s |-> <<>>, l |-> l]
Other == [type |-> "other", s |-> <<>>, l |-> <<>>]

\* issue_dmget: the arguments of the dmget command
issue_dmget(path) ==
    IF path.type = "list" THEN path.l ELSE <<path.s>>

\* ---------------------------------------------------------- MirrorCoordinator
\* the suffix of gcp's in-progress marker file
GCP == <<".gcp">>

\* mutant: the [:-1] is missing, so the destination is the file's own path
Destination_mut(p) == JoinWith(<<"/">>, SplitOn(p, "/"))

\* destination = '/'.join(path[0].split("/")[:-1])
Destination(p) == JoinWith(<<"/">>, ButLast(SplitOn(p, "/")))

\* os.path.isfile
isfile(fs, p) == Canon(p) \in fs

\* path_to_copy: the paths neither mirrored nor being copied
PathToCopy(fs, path, prefix) ==
    SelectSeq(path, LAMBDA p : ~isfile(fs, prefix \o p) /\ ~isfile(fs, prefix \o p \o GCP))

\* the source arguments of the gcp command
GcpSources(path, path_to_copy) == path

\* the destination argument of the gcp command
GcpDest(prefix, dest) == prefix \o dest \o <<"/">>

\* path = [f"{prefix}{p}".replace("//","/") for p in path]
MirroredPaths(path, prefix) ==
    [i \in 1..Len(path) |-> ReplaceDoubled(prefix \o path[i])]

\* mutant: all in place of any, so one mirrored file ends the loop
AnyMissing_mut(seen) == \A i \in 1..Len(seen) : ~seen[i]

\* any([not(os.path.isfile(p)) for p in path]), given what isfile returned
AnyMissing(seen) == \E i \in 1..Len(seen) : ~seen[i]

\* where gcp puts a source file: the destination directory plus its file name
CopyTarget(dst, p) == Canon(dst \o Last(SplitOn(p, "/")))

\* the directory that holds a file
ParentOf(f) == CanonDir(JoinWith(<<"/">>, ButLast(SplitOn(f, "/"))))

\* ------------------------------------------------------------ CatalogExplorer
\* find_variable: the ppnames whose variables include variable, or None
find_variable(allvars, variable) ==
    LET ppnames == SelectSeq(allvars, LAMBDA c : variable \in Range(c.varnames))
    IN IF ppnames # <<>>
       THEN [kind |-> "list", val |-> [i \in 1..Len(ppnames) |-> ppnames[i].ppname]]
       ELSE [kind |-> "None", val |-> <<>>]

\* the filter of find_unique_variable's list comprehension
Matches(e, require, ignore) ==
    /\ \A i \in 1..Len(require) : IsSubstring(require[i], e)
    /\ ~ \E i \in 1..Len(ignore) : IsSubstring(ignore[i], e)

\* local_list
LocalList(ppnames, require, ignore) ==
    SelectSeq(ppnames, LAMBDA e : Matches(e, require, ignore))

\* mutant: the first test is len(local_list)>=1, so ambiguity is never raised
SelectUnique_mut(local_list, unique) ==
    IF Len(local_list) >= 1
    THEN [kind |-> "return", tag |-> "str", val |-> <<local_list[1]>>]
    ELSE [kind |-> "raise", tag |-> "ValueError: no match", val |-> <<>>]

\* the if / elif chain that ends find_unique_variable
SelectUnique(local_list, unique) ==
    IF Len(local_list) = 1
    THEN [kind |-> "return", tag |-> "str", val |-> <<local_list[1]>>]
    ELSE IF Len(local_list) = 0
    THEN [kind |-> "raise", tag |-> "ValueError: no match", val |-> <<>>]
    ELSE IF unique
    THEN [kind |-> "raise", tag |-> "ValueError: ambiguous", val |-> local_list]
    ELSE [kind |-> "return", tag |-> "list", val |-> local_list]

\* a str argument becomes a one-element list
AsList(x) == IF x.type = "str" THEN <<x.s>> ELSE x.l

\* ------------------------------------------------------------------ inputs
\* open_frompp's arguments: one postprocess directory, a time string with or
\* without a wildcard, add as a str, a list of str or neither
OpenArgs ==
    [pp : {<<"/", "p">>}, ppname : {<<"a">>}, out : {<<"ts">>}, local : {<<"y">>},
     time : {<<"*">>},
     add : {Str(<<"v">>), List(<< <<"v">>, <<"w">> >>), Other},
     dmget : BOOLEAN, mirror : BOOLEAN,
     prefix : {<<"/", "s">>, <<"/", "s", "/">>}]

RECURSIVE Expand(_, _)
\* a pattern with its wildcard replaced by t
Expand(pattern, t) ==
    IF pattern = <<>> THEN <<>>
    ELSE (IF Head(pattern) = "*" THEN t ELSE <<Head(pattern)>>)
             \o Expand(Tail(pattern), t)

\* the files a pattern can match, in directory order: one per time chunk
GlobListing(pattern) == <<Expand(pattern, <<"1">>), Expand(pattern, <<"2">>)>>

RECURSIVE Keep(_, _, _)
\* the elements of list from index i on whose index is in S
Keep(list, S, i) ==
    IF i > Len(list) THEN <<>>
    ELSE (IF i \in S THEN <<list[i]>> ELSE <<>>) \o Keep(list, S, i + 1)

\* glob.glob(pattern): the matching files that exist, at most room of them
GlobResults(pattern, room) ==
    {Keep(GlobListing(pattern), S, 1) :
        S \in {T \in SUBSET (1..Len(GlobListing(pattern))) : Cardinality(T) <= room}}

\* the files given to mirror_path and query_all_ondisk on their own
\* two files of one directory (the second spelt with a doubled separator),
\* a file of another directory, and a file named without a directory
FA == <<"/", "a", "/", "f">>
FB == <<"/", "a", "/", "/", "g">>
FC == <<"/", "b", "/", "g">>
FD == <<"f">>
FilePaths == {FA, FB, FC, FD}

\* mirror_path's arguments: a str, a list of str, or neither
MirrorArgs ==
    [path : {Str(f) : f \in FilePaths}
              \cup {List(l) : l \in DistinctSeqs(FilePaths, MaxPaths)}
              \cup {Other},
     prefix : {<<"/", "s">>}]

\* query_all_ondisk's argument on its own
QueryArgs == DistinctSeqs({FA, FB}, MaxPaths)

\* get_pathspp's arguments: every string over "/" and "a" up to the bound for
\* pp, out and local, and up to one character for the others
Chars == {"/", "a"}
PathsppArgs ==
    [pp : SeqsUpTo(Chars, MaxSegLen), ppname : SeqsUpTo(Chars, 1),
     out : SeqsUpTo(Chars, MaxSegLen), local : SeqsUpTo(Chars, MaxSegLen),
     time : SeqsUpTo(Chars, 1), add : SeqsUpTo(Chars, 1)]

\* the catalogue get_allvars returns: components in listing order, each with
\* its variables
PPNames == {<<"a">>, <<"a", "b">>, <<"b">>}
Catalogs ==
    {c \in SeqsUpTo([ppname : PPNames, varnames : {<< <<"t">> >>, << <<"s">> >>}], MaxComps) :
        \A i, j \in 1..Len(c) : i # j => c[i].ppname # c[j].ppname}

\* find_unique_variable's arguments
FindArgs ==
    [allvars : Catalogs, variable : {<<"t">>},
     require : {List(<<>>), Str(<<"a">>), List(<< <<"a">>, <<"b">> >>)},
     ignore : {List(<<>>), Str(<<"b">>), List(<< <<"a">> >>)},
     unique : BOOLEAN]

\* ------------------------------------------------------------------- state
VARIABLES
    pc,            \* where the running call is
    call,          \* the function called from outside
    args,          \* its arguments
    result,        \* what it returned or raised
    io,            \* the commands and library calls issued so far, in order
    files,         \* the regular files under the mirror prefix
    dirs,          \* the directories under the mirror prefix
    gcpPlaced,     \* whether gcp put the source files into its destination
    removedAfter,  \* whether a mirrored file was removed after the copy
    paths,         \* open_frompp: paths
    vi,            \* open_frompp: the index of v in add
    qpaths,        \* query_all_ondisk: paths
    qvals,         \* query_all_ondisk: all(query_ondisk(path).values()), so far
    qmarked,       \* whether each entry's dictionary marked it resident
    qdone,         \* query_all_ondisk: whether a pass has returned
    qres,          \* query_all_ondisk: what the last pass returned
    mpath,         \* mirror_path: path, as a list
    mprefix,       \* mirror_path: prefix
    destination,   \* mirror_path: destination
    path_to_copy,  \* mirror_path: path_to_copy
    awaited,       \* mirror_path: path after line 234
    seen,          \* mirror_path: what isfile returned in this poll, so far
    fv,            \* find_unique_variable: what find_variable returned
    require,       \* find_unique_variable: require, as a list
    ignore         \* find_unique_variable: ignore, as a list

vars ==
    <<pc, call, args, result, io, files, dirs, gcpPlaced, removedAfter, paths, vi,
      qpaths, qvals, qmarked, qdone, qres, mpath, mprefix, destination, path_to_copy,
      awaited, seen, fv, require, ignore>>

envVars == <<files, dirs, gcpPlaced, removedAfter>>
openVars == <<paths, vi>>
queryVars == <<qpaths, qvals, qmarked, qdone, qres>>
mirrorVars == <<mpath, mprefix, destination, path_to_copy, awaited, seen>>
findVars == <<fv, require, ignore>>

NoResult == [kind |-> "none", tag |-> "", val |-> <<>>]

Init ==
    /\ pc = "idle"
    /\ call = "none"
    /\ args = <<>>
    /\ result = NoResult
    /\ io = <<>>
    /\ files = {}
    /\ dirs = {}
    /\ gcpPlaced = FALSE
    /\ removedAfter = FALSE
    /\ paths = <<>>
    /\ vi = 1
    /\ qpaths = <<>>
    /\ qvals = <<>>
    /\ qmarked = <<>>
    /\ qdone = FALSE
    /\ qres = FALSE
    /\ mpath = <<>>
    /\ mprefix = <<>>
    /\ destination = <<>>
    /\ path_to_copy = <<>>
    /\ awaited = <<>>
    /\ seen = <<>>
    /\ fv = [kind |-> "unset", val |-> <<>>]
    /\ require = <<>>
    /\ ignore = <<>>

Event(op, a) == [op |-> op, args |-> a]

Raise(tag) == [kind |-> "raise", tag |-> tag, val |-> <<>>]
Return(tag, val) == [kind |-> "return", tag |-> tag, val |-> val]

\* --------------------------------------------------------------- get_pathspp
CallGetPathspp ==
    /\ pc = "idle"
    /\ \E a \in PathsppArgs :
        /\ call' = "get_pathspp"
        /\ args' = a
        /\ result' = Return("str", <<get_pathspp(a.pp, a.ppname, a.out, a.local, a.time, a.add)>>)
        /\ pc' = "done"
        /\ UNCHANGED <<io, envVars, openVars, queryVars, mirrorVars, findVars>>

\* ---------------------------------------------------------- query_all_ondisk
CallQueryAllOndisk ==
    /\ pc = "idle"
    /\ \E ps \in QueryArgs :
        /\ call' = "query_all_ondisk"
        /\ args' = ps
        /\ qpaths' = ps
        /\ qvals' = <<>>
        /\ qmarked' = <<>>
        /\ pc' = "q_step"
        /\ UNCHANGED <<result, io, envVars, openVars, qdone, qres, mirrorVars, findVars>>

\* query_ondisk(path) for the next entry of paths: dmls prints something
QueryOndisk ==
    /\ pc = "q_step"
    /\ Len(qvals) < Len(qpaths)
    /\ \E outputs \in DmlsOutputs(qpaths[Len(qvals) + 1]) :
           /\ qvals' = Append(qvals, AllValues(query_ondisk(outputs)))
           /\ qmarked' = Append(qmarked, MarkedResident(query_ondisk(outputs),
                                                       qpaths[Len(qvals) + 1]))
    /\ UNCHANGED <<pc, call, args, result, io, envVars, openVars, qpaths, qdone, qres,
                   mirrorVars, findVars>>

\* query_all_ondisk returns, to its caller
QueryAllReturn ==
    /\ pc = "q_step"
    /\ Len(qvals) = Len(qpaths)
    /\ qres' = query_all_ondisk(qvals)
    /\ qdone' = TRUE
    /\ IF call = "query_all_ondisk"
       THEN pc' = "done" /\ result' = Return("bool", <<qres'>>)
       ELSE pc' = "o_wait" /\ UNCHANGED result
    /\ UNCHANGED <<call, args, io, envVars, openVars, qpaths, qvals, qmarked, mirrorVars,
                   findVars>>

\* --------------------------------------------------------------- mirror_path
\* what may be under the prefix when mirror_path is called: nothing, or one
\* of the paths mirrored already, or one being copied (a .gcp marker)
InitialFiles(path, prefix) ==
    {{}} \cup {{Canon(prefix \o path[i])} : i \in 1..Len(path)}
         \cup {{Canon(prefix \o path[i] \o GCP)} : i \in 1..Len(path)}

\* lines 218-220, and the file system the call finds
MirrorBegin(path, prefix) ==
    /\ mpath' = path
    /\ mprefix' = prefix
    /\ \E fs \in InitialFiles(path, prefix) :
           /\ files' = fs
           /\ dirs' = {ParentOf(f) : f \in fs}
    /\ pc' = "m_dir"
    /\ UNCHANGED <<gcpPlaced, removedAfter, destination, path_to_copy, awaited, seen>>

CallMirrorPath ==
    /\ pc = "idle"
    /\ \E a \in MirrorArgs :
        /\ call' = "mirror_path"
        /\ args' = a
        /\ IF a.path.type \in {"str", "list"}
           THEN MirrorBegin(AsList(a.path), a.prefix) /\ UNCHANGED result
           ELSE /\ pc' = "raised"
                /\ result' = Raise("ValueError: path must be str or list of str.")
                /\ UNCHANGED <<envVars, mirrorVars>>
        /\ UNCHANGED <<io, openVars, queryVars, findVars>>

\* lines 221-224: the destination directory, made if it is not there
MirrorEnsureDir ==
    /\ pc = "m_dir"
    /\ IF mpath = <<>>
       THEN /\ pc' = "raised"
            /\ result' = Raise("IndexError")
            /\ UNCHANGED <<io, dirs, destination>>
       ELSE /\ destination' = Destination(mpath[1])
            /\ IF CanonDir(mprefix \o destination') \notin dirs
               THEN /\ dirs' = dirs \cup {CanonDir(mprefix \o destination')}
                    /\ io' = Append(io, Event("makedirs", <<mprefix \o destination'>>))
               ELSE UNCHANGED <<dirs, io>>
            /\ pc' = "m_filter"
            /\ UNCHANGED result
    /\ UNCHANGED <<call, args, files, gcpPlaced, removedAfter, openVars, queryVars,
                   mpath, mprefix, path_to_copy, awaited, seen, findVars>>

\* lines 225-229
MirrorFilter ==
    /\ pc = "m_filter"
    /\ path_to_copy' = PathToCopy(files, mpath, mprefix)
    /\ pc' = "m_gcp"
    /\ UNCHANGED <<call, args, result, io, envVars, openVars, queryVars,
                   mpath, mprefix, destination, awaited, seen, findVars>>

\* lines 230-234: the gcp command, which copies or fails, and the paths to
\* wait for
MirrorCopy ==
    /\ pc = "m_gcp"
    /\ LET src == GcpSources(mpath, path_to_copy)
           dst == GcpDest(mprefix, destination)
       IN /\ io' = Append(io, Event("gcp", Append(src, dst)))
          /\ \E placed \in BOOLEAN :
                 /\ gcpPlaced' = placed
                 /\ files' = IF placed
                             THEN files \cup {CopyTarget(dst, src[i]) : i \in 1..Len(src)}
                             ELSE files
    /\ awaited' = MirroredPaths(mpath, mprefix)
    /\ seen' = <<>>
    /\ pc' = "m_poll"
    /\ UNCHANGED <<call, args, result, dirs, removedAfter, openVars, queryVars,
                   mpath, mprefix, destination, path_to_copy, findVars>>

\* line 235: one os.path.isfile of the list comprehension
MirrorPollOne ==
    /\ pc = "m_poll"
    /\ Len(seen) < Len(awaited)
    /\ seen' = Append(seen, isfile(files, awaited[Len(seen) + 1]))
    /\ UNCHANGED <<pc, call, args, result, io, envVars, openVars, queryVars,
                   mpath, mprefix, destination, path_to_copy, awaited, findVars>>

\* lines 235-236: something is missing, sleep and poll again
MirrorPollAgain ==
    /\ pc = "m_poll"
    /\ Len(seen) = Len(awaited)
    /\ AnyMissing(seen)
    /\ seen' = <<>>
    /\ UNCHANGED <<pc, call, args, result, io, envVars, openVars, queryVars,
                   mpath, mprefix, destination, path_to_copy, awaited, findVars>>

\* lines 237-240: nothing is missing, return path
MirrorReturn ==
    /\ pc = "m_poll"
    /\ Len(seen) = Len(awaited)
    /\ ~AnyMissing(seen)
    /\ IF call = "mirror_path"
       THEN pc' = "done" /\ result' = Return("list", awaited)
       ELSE pc' = "o_rename" /\ UNCHANGED result
    /\ UNCHANGED <<call, args, io, envVars, openVars, queryVars, mirrorVars, findVars>>

\* while mirror_path polls, a copy may complete late
EnvCreate ==
    /\ pc = "m_poll"
    /\ \E i \in 1..Len(mpath) :
           /\ Canon(mprefix \o mpath[i]) \notin files
           /\ files' = files \cup {Canon(mprefix \o mpath[i])}
    /\ UNCHANGED <<pc, call, args, result, io, dirs, gcpPlaced, removedAfter, openVars,
                   queryVars, mirrorVars, findVars>>

\* while mirror_path polls, a mirrored file may be removed (scratch is purged)
EnvRemove ==
    /\ pc = "m_poll"
    /\ \E i \in 1..Len(mpath) :
           /\ Canon(mprefix \o mpath[i]) \in files
           /\ files' = files \ {Canon(mprefix \o mpath[i])}
    /\ removedAfter' = TRUE
    /\ UNCHANGED <<pc, call, args, result, io, dirs, gcpPlaced, openVars,
                   queryVars, mirrorVars, findVars>>

\* --------------------------------------------------------------- open_frompp
\* mutant: the test misses the case it is there for
BothModes_mut(dmget, mirror) == dmget /\ ~mirror

\* line 58: if dmget and mirror
BothModes(dmget, mirror) == dmget /\ mirror

\* the values v of which line 62 or line 67 builds a pattern
AddList(a) == AsList(a.add)

\* mutant: the loop ends after the first query, whatever it returned
MigrationComplete_mut(r) == TRUE

\* line 73: the loop ends when query_all_ondisk returned true
MigrationComplete(r) == r

\* lines 58-59, and lines 61-64 when add is neither a str nor a list: paths is
\* never bound and line 69 raises
CallOpenFrompp ==
    /\ pc = "idle"
    /\ \E a \in OpenArgs :
        /\ call' = "open_frompp"
        /\ args' = a
        /\ IF BothModes(a.dmget, a.mirror)
           THEN /\ pc' = "raised"
                /\ result' = Raise("ValueError: Can not set both")
           ELSE IF a.add.type = "other"
           THEN /\ pc' = "raised"
                /\ result' = Raise("UnboundLocalError")
           ELSE /\ pc' = "o_glob"
                /\ UNCHANGED result
        /\ UNCHANGED <<io, envVars, openVars, queryVars, mirrorVars, findVars>>

\* lines 62-63 or one iteration of lines 66-67
OpenGlob ==
    /\ pc = "o_glob"
    /\ vi <= Len(AddList(args))
    /\ LET pattern == get_pathspp(args.pp, args.ppname, args.out, args.local,
                                  args.time, AddList(args)[vi])
       IN /\ io' = Append(io, Event("glob", <<pattern>>))
          /\ \E r \in GlobResults(pattern, MaxPaths - Len(paths)) : paths' = paths \o r
    /\ vi' = vi + 1
    /\ UNCHANGED <<pc, call, args, result, envVars, queryVars, mirrorVars, findVars>>

\* lines 69-73: the dmget command, then the first query
OpenIssueDmget ==
    /\ pc = "o_glob"
    /\ vi > Len(AddList(args))
    /\ Len(paths) > 0
    /\ args.dmget
    /\ io' = Append(io, Event("dmget", issue_dmget(List(paths))))
    /\ qpaths' = paths
    /\ qvals' = <<>>
    /\ qmarked' = <<>>
    /\ pc' = "q_step"
    /\ UNCHANGED <<call, args, result, envVars, openVars, qdone, qres, mirrorVars, findVars>>

\* lines 73-74: not all on disk, sleep and query again
OpenPollAgain ==
    /\ pc = "o_wait"
    /\ ~MigrationComplete(qres)
    /\ qvals' = <<>>
    /\ qmarked' = <<>>
    /\ pc' = "q_step"
    /\ UNCHANGED <<call, args, result, io, envVars, openVars, qpaths, qdone, qres,
                   mirrorVars, findVars>>

\* lines 73, 75: all on disk
OpenMigrated ==
    /\ pc = "o_wait"
    /\ MigrationComplete(qres)
    /\ pc' = "o_open"
    /\ UNCHANGED <<call, args, result, io, envVars, openVars, queryVars, mirrorVars, findVars>>

\* lines 76-78: mirror_path(paths, prefix=prefix)
OpenMirror ==
    /\ pc = "o_glob"
    /\ vi > Len(AddList(args))
    /\ Len(paths) > 0
    /\ ~args.dmget
    /\ args.mirror
    /\ MirrorBegin(paths, args.prefix)
    /\ UNCHANGED <<call, args, result, io, openVars, queryVars, findVars>>

\* line 79: paths = [f"{prefix}{p}" for p in paths]
OpenRename ==
    /\ pc = "o_rename"
    /\ paths' = [i \in 1..Len(paths) |-> args.prefix \o paths[i]]
    /\ pc' = "o_open"
    /\ UNCHANGED <<call, args, result, io, envVars, vi, queryVars, mirrorVars, findVars>>

\* lines 69-81 when there is nothing to wait for
OpenDirect ==
    /\ pc = "o_glob"
    /\ vi > Len(AddList(args))
    /\ Len(paths) = 0 \/ (~args.dmget /\ ~args.mirror)
    /\ pc' = "o_open"
    /\ UNCHANGED <<call, args, result, io, envVars, openVars, queryVars, mirrorVars, findVars>>

\* line 82: xr.open_mfdataset(paths, ...)
OpenDataset ==
    /\ pc = "o_open"
    /\ io' = Append(io, Event("open_mfdataset", paths))
    /\ result' = Return("dataset", paths)
    /\ pc' = "done"
    /\ UNCHANGED <<call, args, envVars, openVars, queryVars, mirrorVars, findVars>>

\* ------------------------------------------------------ find_unique_variable
\* lines 332-335
CallFindUniqueVariable ==
    /\ pc = "idle"
    /\ \E a \in FindArgs :
        /\ call' = "find_unique_variable"
        /\ args' = a
        /\ ignore' = AsList(a.ignore)
        /\ require' = AsList(a.require)
        /\ pc' = "f_find"
        /\ UNCHANGED <<result, io, envVars, openVars, queryVars, mirrorVars, fv>>

\* line 337: find_variable(pp, variable), which prints when it finds nothing
FindVariable ==
    /\ pc = "f_find"
    /\ fv' = find_variable(args.allvars, args.variable)
    /\ io' = IF fv'.kind = "None"
             THEN Append(io, Event("print", <<args.variable>>))
             ELSE io
    /\ pc' = "f_select"
    /\ UNCHANGED <<call, args, result, envVars, openVars, queryVars, mirrorVars,
                   require, ignore>>

\* lines 336-350: iterating over None raises; otherwise the if / elif chain
FindUniqueSelect ==
    /\ pc = "f_select"
    /\ result' = IF fv.kind = "None"
                 THEN Raise("TypeError: 'NoneType' object is not iterable")
                 ELSE SelectUnique(LocalList(fv.val, require, ignore), args.unique)
    /\ pc' = IF result'.kind = "raise" THEN "raised" ELSE "done"
    /\ UNCHANGED <<call, args, io, envVars, openVars, queryVars, mirrorVars, findVars>>

\* ------------------------------------------------------------ specification
Step ==
    \/ CallGetPathspp
    \/ CallQueryAllOndisk
    \/ QueryOndisk
    \/ QueryAllReturn
    \/ CallMirrorPath
    \/ MirrorEnsureDir
    \/ MirrorFilter
    \/ MirrorCopy
    \/ MirrorPollOne
    \/ MirrorPollAgain
    \/ MirrorReturn
    \/ CallOpenFrompp
    \/ OpenGlob
    \/ OpenIssueDmget
    \/ OpenPollAgain
    \/ OpenMigrated
    \/ OpenMirror
    \/ OpenRename
    \/ OpenDirect
    \/ OpenDataset
    \/ CallFindUniqueVariable
    \/ FindVariable
    \/ FindUniqueSelect

Next == Step \/ EnvCreate \/ EnvRemove

Spec == Init /\ [][Next]_vars

\* the steps of mirror_path's polling loop
MirrorPoll == MirrorPollOne \/ MirrorPollAgain \/ MirrorReturn

\* The interpreter keeps running the polling loop: its next step is
\* eventually taken.  Nothing is assumed of the file system.
FairSpec == Spec /\ WF_vars(MirrorPoll)

\* ------------------------------------------------------------- properties
\* the positions in the log of the events of one kind
EventsOf(op) == {k \in 1..Len(io) : io[k].op = op}

\* open_frompp is running its dmget workflow on a non-empty list of paths
InMigration ==
    /\ call = "open_frompp"
    /\ args.dmget
    /\ pc \in {"q_step", "o_wait", "o_open", "done"}
    /\ Len(paths) > 0

\* a query_all_ondisk pass has run, wholly or in part
Queried == qdone \/ qvals # <<>>

\* C1: with dmget=True and matched paths, dmget is issued exactly once, for
\* the whole list of paths, before any residency query; while the workflow
\* polls nothing else is issued; and the dataset is opened only after
\* query_all_ondisk has returned true.
C1_MigrationRequestThenPolling ==
    /\ (call = "open_frompp" /\ Queried) => EventsOf("dmget") # {}
    /\ InMigration =>
           /\ Cardinality(EventsOf("dmget")) = 1
           /\ \A k \in EventsOf("dmget") :
                  /\ io[k].args = paths
                  /\ \A j \in 1..(k - 1) : io[j].op = "glob"
                  /\ \A j \in (k + 1)..Len(io) : io[j].op = "open_mfdataset" /\ pc = "done"
           /\ pc \in {"o_open", "done"} => (qdone /\ qres)

C1_Witness ==
    /\ InMigration
    /\ pc = "done"
    /\ Len(paths) = 2
    /\ Len(AddList(args)) = 2

\* C2: in the dmget workflow the dataset open is reached only when the last
\* query reported every requested file resident; a file that is never
\* reported resident keeps the workflow polling.
C2_NeverOpensWhileNonResident ==
    (InMigration /\ pc \in {"o_open", "done"}) =>
        \A i \in 1..Len(qmarked) : qmarked[i]

\* C3: query_all_ondisk returns true only if every entry of paths was marked
\* resident in the dictionary query_ondisk computed for it, whatever dmls
\* printed.
C3_TrueOnlyIfAllMarkedResident ==
    (qdone /\ qres /\ Len(qvals) = Len(qpaths) /\ Len(qmarked) = Len(qpaths)) =>
        \A i \in 1..Len(qmarked) : qmarked[i]

\* C4: open_frompp with dmget=True and mirror=True raises the ValueError, and
\* has then issued no glob, dmget, dmls, makedirs, gcp or open_mfdataset.
C4_BothModesRaiseBeforeIO ==
    (call = "open_frompp" /\ args.dmget /\ args.mirror) =>
        /\ pc = "raised"
        /\ result = Raise("ValueError: Can not set both")
        /\ io = <<>>
        /\ ~Queried
        /\ paths = <<>>
        /\ files = {} /\ dirs = {}

C4_Witness ==
    /\ call = "open_frompp"
    /\ args.dmget /\ args.mirror
    /\ pc = "raised"

\* C5: a path that was already mirrored, or had a .gcp marker, when
\* mirror_path was called (so is not in path_to_copy) is not among the source
\* arguments of the gcp command.
C5_CopySkipsMirrored ==
    \A k \in EventsOf("gcp") : \A i \in 1..Len(mpath) :
        mpath[i] \notin Range(path_to_copy) => mpath[i] \notin Range(ButLast(io[k].args))

\* mirror_path has returned to whoever called it from outside
MirrorReturned == call = "mirror_path" /\ pc = "done"

\* the destination directory exists and gcp was issued exactly once
CopyIssuedOnce ==
    /\ CanonDir(mprefix \o destination) \in dirs
    /\ Cardinality(EventsOf("gcp")) = 1

\* every path was seen to exist by the isfile calls of the last poll
AllSeen == Len(seen) = Len(mpath) /\ \A i \in 1..Len(seen) : seen[i]

\* C6 as stated: mirror_path polls only after the directory is ensured and
\* gcp issued once, returns only after one poll saw every mirrored path, and
\* returns the list of prefix + p, one per input path in input order.
C6_ReturnsPrefixPlusPath ==
    /\ pc = "m_poll" => CopyIssuedOnce
    /\ MirrorReturned =>
           /\ CopyIssuedOnce
           /\ AllSeen
           /\ mpath = AsList(args.path)
           /\ result = Return("list", [i \in 1..Len(mpath) |-> mprefix \o mpath[i]])

\* C6 amended: as above, but each returned path is prefix + p after one
\* left-to-right replacement of "//" by "/"; it names the same file as
\* prefix + p.
C6_ReturnsCollapsedPaths ==
    /\ pc = "m_poll" => CopyIssuedOnce
    /\ MirrorReturned =>
           /\ CopyIssuedOnce
           /\ AllSeen
           /\ mpath = AsList(args.path)
           /\ result = Return("list", [i \in 1..Len(mpath) |-> ReplaceDoubled(mprefix \o mpath[i])])
           /\ \A i \in 1..Len(mpath) : Canon(result.val[i]) = Canon(mprefix \o mpath[i])

C6_Witness ==
    /\ MirrorReturned
    /\ Len(mpath) = 2
    /\ removedAfter
    /\ \E i \in 1..Len(mpath) : result.val[i] # mprefix \o mpath[i]

\* find_unique_variable has ended, find_variable having returned a list
FindEnded == call = "find_unique_variable" /\ pc \in {"done", "raised"}

\* the filtered candidates
Candidates == LocalList(fv.val, require, ignore)

\* C7 as stated: with unique=True the call fails unless there is exactly one
\* candidate, which it returns; with unique=False it returns the whole list
\* of candidates whatever its size, and fails only if it is empty.
C7_UniqueOrFullList ==
    (FindEnded /\ fv.kind = "list") =>
        IF args.unique
        THEN IF Len(Candidates) = 1
             THEN result = Return("str", <<Candidates[1]>>)
             ELSE result.kind = "raise"
        ELSE IF Len(Candidates) = 0
             THEN result.kind = "raise"
             ELSE result = Return("list", Candidates)

\* C7 amended: with unique=False the single candidate itself is returned when
\* there is exactly one, and the whole list only when there are several; the
\* call also fails when find_variable returned None.
C7_UniqueOrSingleOrList ==
    FindEnded =>
        IF fv.kind = "None" THEN result.kind = "raise"
        ELSE IF Len(Candidates) = 1 THEN result = Return("str", <<Candidates[1]>>)
        ELSE IF Len(Candidates) = 0 \/ args.unique THEN result.kind = "raise"
        ELSE result = Return("list", Candidates)

C7_Witness ==
    /\ FindEnded
    /\ fv.kind = "list"
    /\ ~args.unique
    /\ Len(fv.val) = 2
    /\ Len(Candidates) = 1
    /\ result.kind = "return"

\* C8: a unique lookup without any match fails with the not-found ValueError,
\* whether the filters exclude every component or find_variable found none.
C8_NoMatchRaisesNotFound ==
    (FindEnded /\ args.unique /\ Candidates = <<>>) =>
        result = Raise("ValueError: no match")

\* C9: the path get_pathspp returns holds no "//".
C9_NoDoubledSeparator ==
    (call = "get_pathspp" /\ pc = "done") => ~HasDoubled(result.val[1])

\* every path is in the directory of the first
SharedParent == \A i \in 1..Len(mpath) : ParentOf(mpath[i]) = ParentOf(mpath[1])

\* every path names a directory
AllInDirectory == \A i \in 1..Len(mpath) : "/" \in Range(mpath[i])

\* C10 as stated: when the paths share the parent of the first and gcp put
\* the files into prefix + that parent, mirror_path leaves its polling loop,
\* unless a mirrored file is removed afterwards.
C10_MirrorReturns ==
    (pc = "m_poll" /\ gcpPlaced /\ SharedParent) ~> (pc # "m_poll" \/ removedAfter)

\* C10 amended: the same, for paths that each contain a "/".
C10_MirrorReturnsWithDirectory ==
    (pc = "m_poll" /\ gcpPlaced /\ SharedParent /\ AllInDirectory)
        ~> (pc # "m_poll" \/ removedAfter)

C10_Witness ==
    /\ MirrorReturned
    /\ gcpPlaced /\ ~removedAfter
    /\ SharedParent /\ AllInDirectory
    /\ Len(mpath) = 2
    /\ files = {Canon(mprefix \o mpath[i]) : i \in 1..2}

====
